---- MODULE Spec2Model ----
(***************************************************************************)
(* Model of the CHIP message header codec, src/transport/MessageHeader.cpp *)
(*                                                                         *)
(*   16 bit: | VERSION: 4 bit | FLAGS: 4 bit | RESERVED: 8 bit |           *)
(*   32 bit: | MESSAGE_ID                                      |           *)
(*   64 bit: | SOURCE_NODE_ID (iff source node flag is set)    |           *)
(*   64 bit: | DEST_NODE_ID (iff destination node flag is set) |           *)
(*                                                                         *)
(* Representation.  A byte is a number in 0..255.  The 16-bit header word  *)
(* is a number.  A 32-bit or 64-bit unsigned value does not fit TLC's      *)
(* integers, so it is kept as its base-256 numeral, most significant digit *)
(* first: 0x01020304 is <<1, 2, 3, 4>>.  The little-endian readers and     *)
(* writers convert between numerals and buffer bytes (least significant    *)
(* digit at the lowest address), so the conversion is a reversal and not   *)
(* the identity.                                                           *)
(*                                                                         *)
(* A buffer is a sequence of bytes; the byte the code calls data[i] is     *)
(* data[i + 1] here.  Memory behind the end of the caller's buffer does    *)
(* not belong to the buffer: a read there is undefined behaviour and       *)
(* yields whatever happens to be stored there, modelled by the parameter   *)
(* beyond, which each Decode call picks nondeterministically.              *)
(***************************************************************************)
EXTENDS Integers, Sequences, FiniteSets, TLC

(***************************************************************************)
(* Bounds of the model                                                     *)
(***************************************************************************)
\* Buffers of every length 0 .. MaxSize are decoded and encoded into.
MaxSize == 23

(***************************************************************************)
(* Program constants                                                       *)
(***************************************************************************)
kFixedHeaderSizeBytes == 6
kNodeIdSizeBytes == 8
kFlagDestinationNodeIdPresent == 256
kFlagSourceNodeIdPresent == 512
kVersionMask == 61440
kVersionShift == 12
\* MessageHeader.h, the supported version V (V = 1 in the scenarios)
kHeaderVersion == 1

CHIP_NO_ERROR == "CHIP_NO_ERROR"
CHIP_ERROR_INVALID_ARGUMENT == "CHIP_ERROR_INVALID_ARGUMENT"
CHIP_ERROR_VERSION_MISMATCH == "CHIP_ERROR_VERSION_MISMATCH"

(***************************************************************************)
(* Bit operations on non-negative numbers                                  *)
(***************************************************************************)
RECURSIVE BitAnd(_, _)
BitAnd(a, b) ==
    IF a = 0 \/ b = 0 THEN 0
    ELSE (a % 2) * (b % 2) + 2 * BitAnd(a \div 2, b \div 2)

RECURSIVE BitOr(_, _)
BitOr(a, b) ==
    IF a = 0 THEN b
    ELSE IF b = 0 THEN a
    ELSE (IF a % 2 = 1 \/ b % 2 = 1 THEN 1 ELSE 0) + 2 * BitOr(a \div 2, b \div 2)

RECURSIVE Pow2(_)
Pow2(n) == IF n = 0 THEN 1 ELSE 2 * Pow2(n - 1)

ShiftRight(a, n) == a \div Pow2(n)
\* a << n in 16 bits (uint16_t header = kHeaderVersion << kVersionShift)
ShiftLeft16(a, n) == (a * Pow2(n)) % 65536

(***************************************************************************)
(* Optional<NodeId>                                                        *)
(***************************************************************************)
ZeroNodeId == <<0, 0, 0, 0, 0, 0, 0, 0>>
Missing == [mHasValue |-> FALSE, mValue |-> ZeroNodeId]
Present(v) == [mHasValue |-> TRUE, mValue |-> v]
HasValue(o) == o.mHasValue
Value(o) == o.mValue
SetValue(o, v) == [mHasValue |-> TRUE, mValue |-> v]
ClearValue(o) == [o EXCEPT !.mHasValue = FALSE]
\* equality of two optionals: same presence, and the same value when present
OptionalEq(a, b) ==
    /\ a.mHasValue = b.mHasValue
    /\ a.mHasValue => a.mValue = b.mValue

(***************************************************************************)
(* Memory and the little-endian helpers (chip::Encoding::LittleEndian)     *)
(***************************************************************************)
\* the byte found at index i behind a buffer, beyond being what lies there
BeyondByte(beyond, i) == (beyond + 7 * i) % 256

\* the byte a read of d[i] yields
ByteAt(d, beyond, i) ==
    IF i < Len(d) THEN d[i + 1] ELSE BeyondByte(beyond, i)

Read16(d, beyond, p) == ByteAt(d, beyond, p) + 256 * ByteAt(d, beyond, p + 1)

Read32(d, beyond, p) == [k \in 1..4 |-> ByteAt(d, beyond, p + 4 - k)]

Read64(d, beyond, p) == [k \in 1..8 |-> ByteAt(d, beyond, p + 8 - k)]

\* stores one byte; a store behind the end of the buffer does not land in it
PutByte(d, i, b) == IF i < Len(d) THEN [d EXCEPT ![i + 1] = b] ELSE d

Write16(d, p, v) == PutByte(PutByte(d, p, v % 256), p + 1, (v \div 256) % 256)

RECURSIVE WriteDigits(_, _, _, _)
\* stores the numeral v of n digits, least significant digit first, at p
WriteDigits(d, p, v, n) ==
    IF n = 0 THEN d
    ELSE WriteDigits(PutByte(d, p, v[n]), p + 1, v, n - 1)

Write32(d, p, v) == WriteDigits(d, p, v, 4)

Write64(d, p, v) == WriteDigits(d, p, v, 8)

(***************************************************************************)
(* MessageHeader::EncodeSizeBytes                                          *)
(***************************************************************************)
\* a header object: the three fields of a MessageHeader
Header(id, src, dst) ==
    [mMessageId |-> id, mSourceNodeId |-> src, mDestinationNodeId |-> dst]

\* EncodeSizeBytes adding the fixed size for the destination identifier
EncodeSizeBytes_DestinationFixed(h) ==
    LET size0 == kFixedHeaderSizeBytes
        size1 == IF HasValue(h.mSourceNodeId) THEN size0 + kNodeIdSizeBytes ELSE size0
        size2 == IF HasValue(h.mDestinationNodeId) THEN size1 + kFixedHeaderSizeBytes ELSE size1
    IN  size2

EncodeSizeBytes(h) ==
    LET size0 == kFixedHeaderSizeBytes
        size1 == IF HasValue(h.mSourceNodeId) THEN size0 + kNodeIdSizeBytes ELSE size0
        size2 == IF HasValue(h.mDestinationNodeId) THEN size1 + kNodeIdSizeBytes ELSE size1
    IN  size2

(***************************************************************************)
(* MessageHeader::Decode                                                   *)
(*                                                                         *)
(* A run of Decode is a record: err, the header object h, the read         *)
(* position p (p - data), the remaining-size counter size, the header      *)
(* word, the set reads of buffer indices read so far, and exit, which is   *)
(* TRUE once VerifyOrExit has jumped to the exit label.                    *)
(***************************************************************************)
\* version = ((header & kVersionMask) >> kVersionShift)
VersionOf(header) == ShiftRight(BitAnd(header, kVersionMask), kVersionShift)

HasFlag(header, flag) == BitAnd(header, flag) # 0

\* DecodeFixed storing the message id before it checks the version
DecodeFixed_IdBeforeVersion(d, size, beyond, h) ==
    IF ~(size >= kFixedHeaderSizeBytes)
    THEN [err |-> CHIP_ERROR_INVALID_ARGUMENT, h |-> h, p |-> 0, size |-> size,
          header |-> 0, reads |-> {}, exit |-> TRUE]
    ELSE LET header == Read16(d, beyond, 0)
             h1 == [h EXCEPT !.mMessageId = Read32(d, beyond, 2)]
         IN  IF ~(VersionOf(header) = kHeaderVersion)
             THEN [err |-> CHIP_ERROR_VERSION_MISMATCH, h |-> h1, p |-> 6, size |-> size,
                   header |-> header, reads |-> 0..5, exit |-> TRUE]
             ELSE [err |-> CHIP_NO_ERROR, h |-> h1,
                   p |-> 6, size |-> size - kFixedHeaderSizeBytes,
                   header |-> header, reads |-> 0..5, exit |-> FALSE]

\* the length check, the header word, the version check and the message id
DecodeFixed(d, size, beyond, h) ==
    IF ~(size >= kFixedHeaderSizeBytes)
    THEN [err |-> CHIP_ERROR_INVALID_ARGUMENT, h |-> h, p |-> 0, size |-> size,
          header |-> 0, reads |-> {}, exit |-> TRUE]
    ELSE LET header == Read16(d, beyond, 0)
         IN  IF ~(VersionOf(header) = kHeaderVersion)
             THEN [err |-> CHIP_ERROR_VERSION_MISMATCH, h |-> h, p |-> 2, size |-> size,
                   header |-> header, reads |-> 0..1, exit |-> TRUE]
             ELSE [err |-> CHIP_NO_ERROR,
                   h |-> [h EXCEPT !.mMessageId = Read32(d, beyond, 2)],
                   p |-> 6, size |-> size - kFixedHeaderSizeBytes,
                   header |-> header, reads |-> 0..5, exit |-> FALSE]

\* DecodeSource leaving an earlier source identifier in place when the flag
\* is clear
DecodeSource_NoClear(r, d, beyond) ==
    IF r.exit THEN r
    ELSE IF HasFlag(r.header, kFlagSourceNodeIdPresent)
    THEN IF ~(r.size >= kNodeIdSizeBytes)
         THEN [r EXCEPT !.err = CHIP_ERROR_INVALID_ARGUMENT, !.exit = TRUE]
         ELSE [r EXCEPT !.h.mSourceNodeId = SetValue(@, Read64(d, beyond, r.p)),
                        !.reads = @ \cup (r.p .. r.p + 7),
                        !.p = @ + 8,
                        !.size = @ - kFixedHeaderSizeBytes]
    ELSE r

\* if (header & kFlagSourceNodeIdPresent) ... else ...
DecodeSource(r, d, beyond) ==
    IF r.exit THEN r
    ELSE IF HasFlag(r.header, kFlagSourceNodeIdPresent)
    THEN IF ~(r.size >= kNodeIdSizeBytes)
         THEN [r EXCEPT !.err = CHIP_ERROR_INVALID_ARGUMENT, !.exit = TRUE]
         ELSE [r EXCEPT !.h.mSourceNodeId = SetValue(@, Read64(d, beyond, r.p)),
                        !.reads = @ \cup (r.p .. r.p + 7),
                        !.p = @ + 8,
                        !.size = @ - kFixedHeaderSizeBytes]
    ELSE [r EXCEPT !.h.mSourceNodeId = ClearValue(@)]

\* DecodeDestination asking for more than the identifier's size
DecodeDestination_StrictCheck(r, d, beyond) ==
    IF r.exit THEN r
    ELSE IF HasFlag(r.header, kFlagDestinationNodeIdPresent)
    THEN IF ~(r.size > kNodeIdSizeBytes)
         THEN [r EXCEPT !.err = CHIP_ERROR_INVALID_ARGUMENT, !.exit = TRUE]
         ELSE [r EXCEPT !.h.mDestinationNodeId = SetValue(@, Read64(d, beyond, r.p)),
                        !.reads = @ \cup (r.p .. r.p + 7),
                        !.p = @ + 8,
                        !.size = @ - kFixedHeaderSizeBytes]
    ELSE [r EXCEPT !.h.mDestinationNodeId = ClearValue(@)]

\* if (header & kFlagDestinationNodeIdPresent) ... else ...
DecodeDestination(r, d, beyond) ==
    IF r.exit THEN r
    ELSE IF HasFlag(r.header, kFlagDestinationNodeIdPresent)
    THEN IF ~(r.size >= kNodeIdSizeBytes)
         THEN [r EXCEPT !.err = CHIP_ERROR_INVALID_ARGUMENT, !.exit = TRUE]
         ELSE [r EXCEPT !.h.mDestinationNodeId = SetValue(@, Read64(d, beyond, r.p)),
                        !.reads = @ \cup (r.p .. r.p + 7),
                        !.p = @ + 8,
                        !.size = @ - kFixedHeaderSizeBytes]
    ELSE [r EXCEPT !.h.mDestinationNodeId = ClearValue(@)]

Decode(d, size, beyond, h) ==
    DecodeDestination(DecodeSource(DecodeFixed(d, size, beyond, h), d, beyond), d, beyond)

(***************************************************************************)
(* MessageHeader::Encode                                                   *)
(***************************************************************************)
\* EncodeFits checking the capacity against the fixed part only
EncodeFits_FixedOnly(h, size) == size >= kFixedHeaderSizeBytes

\* VerifyOrExit(size >= EncodeSizeBytes(), ...)
EncodeFits(h, size) == size >= EncodeSizeBytes(h)

\* EncodeHeaderWord with the two presence flags exchanged
EncodeHeaderWord_FlagsSwapped(h) ==
    LET header0 == ShiftLeft16(kHeaderVersion, kVersionShift)
        header1 == IF HasValue(h.mSourceNodeId)
                   THEN BitOr(header0, kFlagDestinationNodeIdPresent) ELSE header0
        header2 == IF HasValue(h.mDestinationNodeId)
                   THEN BitOr(header1, kFlagSourceNodeIdPresent) ELSE header1
    IN  header2

\* the header word: version, then the presence flags
EncodeHeaderWord(h) ==
    LET header0 == ShiftLeft16(kHeaderVersion, kVersionShift)
        header1 == IF HasValue(h.mSourceNodeId)
                   THEN BitOr(header0, kFlagSourceNodeIdPresent) ELSE header0
        header2 == IF HasValue(h.mDestinationNodeId)
                   THEN BitOr(header1, kFlagDestinationNodeIdPresent) ELSE header1
    IN  header2

\* EncodeWrites storing the destination identifier before the source one
EncodeWrites_DestinationFirst(d, h) ==
    LET w0 == [data |-> Write32(Write16(d, 0, EncodeHeaderWord(h)), 2, h.mMessageId),
               p |-> 6, writes |-> 0..5]
        w1 == IF HasValue(h.mDestinationNodeId)
              THEN [data |-> Write64(w0.data, w0.p, Value(h.mDestinationNodeId)),
                    p |-> w0.p + 8, writes |-> w0.writes \cup (w0.p .. w0.p + 7)]
              ELSE w0
        w2 == IF HasValue(h.mSourceNodeId)
              THEN [data |-> Write64(w1.data, w1.p, Value(h.mSourceNodeId)),
                    p |-> w1.p + 8, writes |-> w1.writes \cup (w1.p .. w1.p + 7)]
              ELSE w1
    IN  w2

\* the writes of Encode, in order; a run is the buffer, the write position p
\* and the set writes of indices stored to
EncodeWrites(d, h) ==
    LET w0 == [data |-> Write32(Write16(d, 0, EncodeHeaderWord(h)), 2, h.mMessageId),
               p |-> 6, writes |-> 0..5]
        w1 == IF HasValue(h.mSourceNodeId)
              THEN [data |-> Write64(w0.data, w0.p, Value(h.mSourceNodeId)),
                    p |-> w0.p + 8, writes |-> w0.writes \cup (w0.p .. w0.p + 7)]
              ELSE w0
        w2 == IF HasValue(h.mDestinationNodeId)
              THEN [data |-> Write64(w1.data, w1.p, Value(h.mDestinationNodeId)),
                    p |-> w1.p + 8, writes |-> w1.writes \cup (w1.p .. w1.p + 7)]
              ELSE w1
    IN  w2

\* a run of Encode: err, the buffer, the caller's encode_size and the writes
Encode(d, size, h, encode_size) ==
    IF ~EncodeFits(h, size)
    THEN [err |-> CHIP_ERROR_INVALID_ARGUMENT, data |-> d,
          encode_size |-> encode_size, writes |-> {}]
    ELSE LET w == EncodeWrites(d, h)
         IN  [err |-> CHIP_NO_ERROR, data |-> w.data,
              encode_size |-> w.p, writes |-> w.writes]

(***************************************************************************)
(* Inputs                                                                  *)
(***************************************************************************)
\* first byte of the header word: the reserved bits 0-7
Byte0Set == {0, 165}
\* second byte: 0x10 0x11 0x12 0x13 (version 1, each flag combination),
\* 0x14 0x1F (reserved bits 10-11 set), 0x23 (version 2), 0x03 (version 0)
Byte1Set == {16, 17, 18, 19, 20, 31, 35, 3}
\* contents of the bytes behind the header word
FillSet == {1}
\* what lies behind the end of a buffer
BeyondSet == {204, 61}

FillByte(k, i) == (k + 17 * i) % 256

MakeBuffer(n, b0, b1, k) ==
    [i \in 1..n |-> IF i = 1 THEN b0 ELSE IF i = 2 THEN b1 ELSE FillByte(k, i - 1)]

Buffers ==
    {MakeBuffer(n, b0, b1, k) : n \in 0..MaxSize, b0 \in Byte0Set, b1 \in Byte1Set, k \in FillSet}

MessageIds == {<<1, 2, 3, 4>>, <<255, 255, 255, 255>>}
NodeIds == {ZeroNodeId, <<17, 34, 51, 68, 85, 102, 119, 136>>}
Optionals == {Missing} \cup {Present(v) : v \in NodeIds}

(***************************************************************************)
(* State                                                                   *)
(***************************************************************************)
VARIABLES
    data,                 \* the caller's buffer
    mMessageId,           \* the header object
    mSourceNodeId,
    mDestinationNodeId,
    encode_size,          \* the caller's bytes-written variable
    op,                   \* the last call: "none", "Decode" or "Encode"
    err,                  \* what the last call returned
    argSize,              \* the size the last call was given
    reads,                \* buffer indices the last Decode read
    writes,               \* buffer indices the last Encode stored to
    consumed,             \* p - data at the end of the last call
    pre,                  \* buffer, header and encode_size before the last call
    prevOp,               \* the call before the last one, and its result
    prevErr

vars == <<data, mMessageId, mSourceNodeId, mDestinationNodeId, encode_size,
          op, err, argSize, reads, writes, consumed, pre, prevOp, prevErr>>

This == Header(mMessageId, mSourceNodeId, mDestinationNodeId)

Snapshot == [data |-> data, h |-> This, encode_size |-> encode_size]

Init ==
    /\ data \in Buffers
    /\ mMessageId \in MessageIds
    /\ mSourceNodeId \in Optionals
    /\ mDestinationNodeId \in Optionals
    /\ encode_size = 3      \* the caller's variable holds some earlier value
    /\ op = "none"
    /\ err = CHIP_NO_ERROR
    /\ argSize = 0
    /\ reads = {}
    /\ writes = {}
    /\ consumed = 0
    /\ pre = Snapshot
    /\ prevOp = "none"
    /\ prevErr = CHIP_NO_ERROR

\* the sizes a caller passes to Decode: the whole buffer, or the number of
\* bytes the last Encode reported
DecodeSizes == {Len(data), encode_size}

\* this->Decode(data, size)
DecodeCall ==
    \E size \in DecodeSizes, beyond \in BeyondSet :
        LET r == Decode(data, size, beyond, This)
        IN  /\ mMessageId' = r.h.mMessageId
            /\ mSourceNodeId' = r.h.mSourceNodeId
            /\ mDestinationNodeId' = r.h.mDestinationNodeId
            /\ err' = r.err
            /\ reads' = r.reads
            /\ consumed' = r.p
            /\ argSize' = size
            /\ writes' = {}
            /\ op' = "Decode"
            /\ pre' = Snapshot
            /\ prevOp' = op
            /\ prevErr' = err
            /\ UNCHANGED <<data, encode_size>>

\* this->Encode(data, size, &encode_size) with size the buffer's capacity
EncodeCall ==
    LET r == Encode(data, Len(data), This, encode_size)
    IN  /\ data' = r.data
        /\ encode_size' = r.encode_size
        /\ err' = r.err
        /\ writes' = r.writes
        /\ consumed' = IF r.err = CHIP_NO_ERROR THEN r.encode_size ELSE 0
        /\ argSize' = Len(data)
        /\ reads' = {}
        /\ op' = "Encode"
        /\ pre' = Snapshot
        /\ prevOp' = op
        /\ prevErr' = err
        /\ UNCHANGED <<mMessageId, mSourceNodeId, mDestinationNodeId>>

Next == DecodeCall \/ EncodeCall

Spec == Init /\ [][Next]_vars

TypeOK ==
    /\ data \in Seq(0..255)
    /\ Len(data) <= MaxSize
    /\ op \in {"none", "Decode", "Encode"}
    /\ err \in {CHIP_NO_ERROR, CHIP_ERROR_INVALID_ARGUMENT, CHIP_ERROR_VERSION_MISMATCH}

(***************************************************************************)
(* The wire format, read off a buffer byte by byte                         *)
(***************************************************************************)
RECURSIVE Reverse(_)
Reverse(s) == IF s = <<>> THEN <<>> ELSE Append(Reverse(Tail(s)), Head(s))

\* bits 12-15 of the word at bytes [0,2) are the high nibble of byte 1
WireVersion(d) == d[2] \div 16
WireSource(d) == (d[2] \div 2) % 2
WireDestination(d) == d[2] % 2
\* the bytes the flags of the header word announce
WireNeed(d) == 6 + 8 * WireSource(d) + 8 * WireDestination(d)

Bit(b) == IF b THEN 1 ELSE 0
ExpectedSize(h) ==
    6 + 8 * Bit(h.mSourceNodeId.mHasValue) + 8 * Bit(h.mDestinationNodeId.mHasValue)

\* field by field equality of two headers
HeaderEq(a, b) ==
    /\ a.mMessageId = b.mMessageId
    /\ OptionalEq(a.mSourceNodeId, b.mSourceNodeId)
    /\ OptionalEq(a.mDestinationNodeId, b.mDestinationNodeId)

Decoded == op = "Decode"
Encoded == op = "Encode"

(***************************************************************************)
(* Properties                                                              *)
(***************************************************************************)

\* C1: every buffer index that Decode reads is strictly below the size it
\* was given.
DecodeReadsWithinSize ==
    Decoded => \A i \in reads : i < argSize

\* C2: Decode of a buffer shorter than 6 bytes fails with InvalidArgument,
\* and Decode of a buffer of the supported version with a presence flag set
\* whose size is below 6 + 8*[source flag] + 8*[destination flag] fails
\* with InvalidArgument.
TruncationRejected ==
    Decoded =>
        /\ argSize < 6 => err = CHIP_ERROR_INVALID_ARGUMENT
        /\ ( /\ argSize >= 6
             /\ WireVersion(pre.data) = kHeaderVersion
             /\ WireSource(pre.data) + WireDestination(pre.data) > 0
             /\ argSize < WireNeed(pre.data) )
           => err = CHIP_ERROR_INVALID_ARGUMENT

\* C3: Encode into a buffer of capacity >= EncodedSize(h) succeeds, and
\* Decode of the bytes it wrote succeeds and yields a header equal to h
\* field by field, presence of the optional identifiers included.
RoundTrip ==
    /\ (Encoded /\ Len(pre.data) >= EncodeSizeBytes(pre.h)) => err = CHIP_NO_ERROR
    /\ (Decoded /\ prevOp = "Encode" /\ prevErr = CHIP_NO_ERROR /\ argSize = encode_size)
       => /\ err = CHIP_NO_ERROR
          /\ HeaderEq(This, pre.h)

\* a header with both identifiers, one of them zero, has been encoded into a
\* larger buffer and decoded back from the bytes written
RoundTripWitness ==
    /\ Decoded /\ prevOp = "Encode" /\ prevErr = CHIP_NO_ERROR
    /\ argSize = encode_size /\ argSize = 22 /\ Len(data) > 22
    /\ err = CHIP_NO_ERROR
    /\ mSourceNodeId = Present(ZeroNodeId)
    /\ mDestinationNodeId.mHasValue /\ mDestinationNodeId.mValue # ZeroNodeId

\* C4: Decode of a buffer of size >= 6 whose version nibble differs from
\* kHeaderVersion fails with VersionMismatch, having read nothing but the
\* header word and having left the header object as it was.
VersionGate ==
    (Decoded /\ argSize >= 6 /\ WireVersion(pre.data) # kHeaderVersion)
    => /\ err = CHIP_ERROR_VERSION_MISMATCH
       /\ reads \subseteq 0..1
       /\ This = pre.h

\* a buffer of version 2 with both flags set, too short for the identifiers
\* it announces, was rejected for its version
VersionGateWitness ==
    /\ Decoded /\ argSize >= 6 /\ argSize < 22
    /\ WireVersion(pre.data) = 2
    /\ WireSource(pre.data) = 1 /\ WireDestination(pre.data) = 1
    /\ err = CHIP_ERROR_VERSION_MISMATCH

\* C5: Encode into a buffer whose capacity is below EncodedSize(h) fails
\* with InvalidArgument, stores to no byte of the buffer and leaves the
\* caller's encode_size alone.
EncodeAtomic ==
    (Encoded /\ Len(pre.data) < ExpectedSize(pre.h))
    => /\ err = CHIP_ERROR_INVALID_ARGUMENT
       /\ data = pre.data
       /\ writes = {}
       /\ encode_size = pre.encode_size

\* a header of both identifiers met a buffer of 6 .. 21 bytes
EncodeAtomicWitness ==
    /\ Encoded /\ Len(pre.data) >= 6 /\ Len(pre.data) < 22
    /\ ExpectedSize(pre.h) = 22
    /\ err = CHIP_ERROR_INVALID_ARGUMENT

\* C6: EncodeSizeBytes is 6 + 8*[source present] + 8*[destination present]:
\* 6, 14 or 22, whatever the message id and the identifier values are.
SizeDeterminism ==
    /\ EncodeSizeBytes(This) = ExpectedSize(This)
    /\ EncodeSizeBytes(This) =
          IF mSourceNodeId.mHasValue /\ mDestinationNodeId.mHasValue THEN 22
          ELSE IF mSourceNodeId.mHasValue \/ mDestinationNodeId.mHasValue THEN 14
          ELSE 6
    /\ \A id \in MessageIds, v \in NodeIds, w \in NodeIds :
          EncodeSizeBytes(Header(id, [mSourceNodeId EXCEPT !.mValue = v],
                                     [mDestinationNodeId EXCEPT !.mValue = w]))
             = EncodeSizeBytes(This)
    /\ (Encoded /\ err = CHIP_NO_ERROR) => encode_size = ExpectedSize(This)

\* a header with the destination identifier only was encoded in 14 bytes
SizeDeterminismWitness ==
    /\ Encoded /\ err = CHIP_NO_ERROR
    /\ ~mSourceNodeId.mHasValue /\ mDestinationNodeId.mHasValue
    /\ encode_size = 14

\* the bytes a header occupies on the wire
WireImage(h) ==
    <<0, 16 * kHeaderVersion + 2 * Bit(h.mSourceNodeId.mHasValue)
                             + Bit(h.mDestinationNodeId.mHasValue)>>
    \o Reverse(h.mMessageId)
    \o (IF h.mSourceNodeId.mHasValue THEN Reverse(h.mSourceNodeId.mValue) ELSE <<>>)
    \o (IF h.mDestinationNodeId.mHasValue THEN Reverse(h.mDestinationNodeId.mValue) ELSE <<>>)

ScenarioHeader == Header(<<1, 2, 3, 4>>, Present(<<17, 34, 51, 68, 85, 102, 119, 136>>), Missing)
ScenarioBytes == <<0, 18, 4, 3, 2, 1, 136, 119, 102, 85, 68, 51, 34, 17>>

\* C7: a successful Encode reports encode_size = EncodedSize(h), stores to
\* exactly the bytes [0, encode_size), leaves the bytes behind them alone,
\* and the bytes stored are the header word (version, flags, zero reserved
\* bits), the message id, the source and the destination identifier, all
\* little-endian; the scenario header gives 00 12 04 03 02 01 88 .. 11.
EncodeLayout ==
    (Encoded /\ err = CHIP_NO_ERROR)
    => /\ encode_size = ExpectedSize(pre.h)
       /\ writes = 0 .. encode_size - 1
       /\ Len(data) = Len(pre.data)
       /\ \A i \in 1..Len(data) : i > encode_size => data[i] = pre.data[i]
       /\ SubSeq(data, 1, encode_size) = WireImage(pre.h)
       /\ HeaderEq(pre.h, ScenarioHeader) => SubSeq(data, 1, 14) = ScenarioBytes

\* two different identifiers were encoded in front of bytes that stayed
EncodeLayoutWitness ==
    /\ Encoded /\ err = CHIP_NO_ERROR
    /\ encode_size = 22 /\ Len(data) > 22
    /\ mSourceNodeId.mValue # mDestinationNodeId.mValue

\* the scenario header was encoded
EncodeScenarioWitness ==
    /\ Encoded /\ err = CHIP_NO_ERROR
    /\ HeaderEq(pre.h, ScenarioHeader)
    /\ SubSeq(data, 1, 14) = ScenarioBytes

\* C8: for a buffer of the supported version and of size >= 6 + 8*[source
\* flag] + 8*[destination flag], Decode succeeds, the header is the one
\* decoded from the prefix of exactly that many bytes, and EncodeSizeBytes
\* of it is the number of bytes Decode consumed.
TrailingBytesArePayload ==
    (Decoded /\ argSize >= 6 /\ WireVersion(pre.data) = kHeaderVersion
             /\ argSize >= WireNeed(pre.data))
    => /\ err = CHIP_NO_ERROR
       /\ consumed = WireNeed(pre.data)
       /\ EncodeSizeBytes(This) = consumed
       /\ \A beyond \in BeyondSet :
             LET n == WireNeed(pre.data)
                 r == Decode(SubSeq(pre.data, 1, n), n, beyond, pre.h)
             IN  r.err = CHIP_NO_ERROR /\ HeaderEq(r.h, This)

\* a buffer with both identifiers and a payload behind them was decoded
TrailingBytesWitness ==
    /\ Decoded /\ err = CHIP_NO_ERROR
    /\ argSize > 22 /\ consumed = 22

\* a buffer of exactly the destination identifier's 14 bytes was decoded
ExactFitWitness ==
    /\ Decoded /\ err = CHIP_NO_ERROR
    /\ argSize = 14 /\ WireDestination(pre.data) = 1 /\ WireSource(pre.data) = 0

\* the buffers that differ from d in nothing but the reserved bits of the
\* header word: byte 0, and bits 2-3 of byte 1
ReservedVariants(d) ==
    {[d EXCEPT ![1] = b0, ![2] = (d[2] \div 16) * 16 + 4 * r + (d[2] % 4)] :
        b0 \in {0, 1, 165, 255}, r \in 0..3}

\* C9: two buffers of the same size that differ only in the reserved bits
\* of the header word give the same Decode outcome: the same error and, on
\* success, the same header.
ReservedBitsIgnored ==
    (Decoded /\ argSize >= 2 /\ Len(pre.data) >= argSize)
    => \A v \in ReservedVariants(pre.data) \ {pre.data}, beyond \in BeyondSet :
          LET r == Decode(v, argSize, beyond, pre.h)
          IN  /\ r.err = err
              /\ err = CHIP_NO_ERROR => HeaderEq(r.h, This)

\* C10: after a successful Decode the message id is the buffer's, and each
\* optional identifier is present exactly when its flag is set in the
\* buffer, whatever the header object held before.
DecodeOverwrites ==
    (Decoded /\ err = CHIP_NO_ERROR)
    => /\ mMessageId = Reverse(SubSeq(pre.data, 3, 6))
       /\ mSourceNodeId.mHasValue <=> WireSource(pre.data) = 1
       /\ mDestinationNodeId.mHasValue <=> WireDestination(pre.data) = 1

\* a header object that held both identifiers decoded a buffer with neither
DecodeOverwritesWitness ==
    /\ Decoded /\ err = CHIP_NO_ERROR
    /\ pre.h.mSourceNodeId.mHasValue /\ pre.h.mDestinationNodeId.mHasValue
    /\ pre.h.mMessageId # mMessageId
    /\ ~mSourceNodeId.mHasValue /\ ~mDestinationNodeId.mHasValue

====
